---- MODULE Spec2Model ----
(***************************************************************************)
(* Model of src/main.py: PinCode32Service, the base-32 codec with the      *)
(* "magic substitution" escaping and the normalisation pipeline.           *)
(*                                                                         *)
(* Text is a sequence of characters.  An ASCII character is the one-       *)
(* character string itself ("Q", " ", "\n"; an unprintable control         *)
(* character is written "<NUL>", "<VT>", ..., the grave accent "<GRAVE>"), *)
(* a non-ASCII character is "U+" followed by its decimal code point        *)
(* ("U+233" is e-acute).                                                   *)
(* A Python value is a record: StrV(s), IntV(n) or a raised ValueError.    *)
(***************************************************************************)
EXTENDS Integers, Sequences, FiniteSets, TLC

VARIABLES service, arg, hist

vars == <<service, arg, hist>>

----------------------------------------------------------------------------
(* Python values *)

StrV(s) == [t |-> "str", s |-> s, n |-> 0]

IntV(n) == [t |-> "int", s |-> <<>>, n |-> n]

\* raise ValueError(f"Invalid character: {ch}")
ValueError(ch) == [t |-> "ValueError", s |-> <<ch>>, n |-> 0]

----------------------------------------------------------------------------
(* Characters *)

U(cp) == "U+" \o ToString(cp)

\* chr(b) for 0 <= b < 128 is ASCII[b + 1]
ASCII ==
  << "<NUL>", "<SOH>", "<STX>", "<ETX>", "<EOT>", "<ENQ>", "<ACK>", "<BEL>", "<BS>", "\t", "\n", "<VT>", "\f", "\r", "<SO>", "<SI>",
     "<DLE>", "<DC1>", "<DC2>", "<DC3>", "<DC4>", "<NAK>", "<SYN>", "<ETB>", "<CAN>", "<EM>", "<SUB>", "<ESC>", "<FS>", "<GS>", "<RS>", "<US>",
     " ", "!", "\"", "#", "$", "%", "&", "'", "(", ")", "*", "+", ",", "-", ".", "/",
     "0", "1", "2", "3", "4", "5", "6", "7", "8", "9", ":", ";", "<", "=", ">", "?",
     "@", "A", "B", "C", "D", "E", "F", "G", "H", "I", "J", "K", "L", "M", "N", "O",
     "P", "Q", "R", "S", "T", "U", "V", "W", "X", "Y", "Z", "[", "\\", "]", "^", "_",
     "<GRAVE>", "a", "b", "c", "d", "e", "f", "g", "h", "i", "j", "k", "l", "m", "n", "o",
     "p", "q", "r", "s", "t", "u", "v", "w", "x", "y", "z", "{", "|", "}", "~", "<DEL>" >>

Chr(cp) == IF cp < 128 THEN ASCII[cp + 1] ELSE U(cp)

Range(f) == {f[i] : i \in DOMAIN f}

AsciiDigits == {ASCII[i + 1] : i \in 48..57}

AsciiUpper == {ASCII[i + 1] : i \in 65..90}

AsciiLower == {ASCII[i + 1] : i \in 97..122}

IndexOf(seq, x) == CHOOSE i \in DOMAIN seq : seq[i] = x

\* ch.upper() and ch.lower(), on the ASCII letters
Upper(ch) == IF ch \in AsciiLower THEN ASCII[IndexOf(ASCII, ch) - 32] ELSE ch

Lower(ch) == IF ch \in AsciiUpper THEN ASCII[IndexOf(ASCII, ch) + 32] ELSE ch

\* ch.isalpha() and ch.isalnum(): the ASCII range and Latin-1 (U+0080..U+00FF),
\* which is the character domain of the model; U+FFFD is neither.
Latin1Letters ==
  {U(cp) : cp \in {170, 181, 186} \cup (192..214) \cup (216..246) \cup (248..255)}

Latin1Numeric == {U(cp) : cp \in {178, 179, 185, 188, 189, 190}}

IsAlpha(ch) == ch \in AsciiUpper \cup AsciiLower \cup Latin1Letters

IsAlnum(ch) == IsAlpha(ch) \/ ch \in AsciiDigits \cup Latin1Numeric

\* ch.isspace(): what str.strip() removes
Whitespace ==
  {"\t", "\n", "<VT>", "\f", "\r", "<FS>", "<GS>", "<RS>", "<US>", " "}
    \cup {U(cp) : cp \in {133, 160, 5760, 8232, 8233, 8239, 8287, 12288}
                         \cup (8192..8202)}

----------------------------------------------------------------------------
(* Strings *)

\* text[i:]
From(text, i) == SubSeq(text, i, Len(text))

\* text.startswith(p, i - 1)
StartsAt(text, i, p) ==
  /\ i + Len(p) - 1 <= Len(text)
  /\ SubSeq(text, i, i + Len(p) - 1) = p

\* p in text
Contains(text, p) == \E i \in 1..(Len(text) + 1) : StartsAt(text, i, p)

\* text.find(p) + 1, given p in text
Find(text, p) ==
  CHOOSE i \in 1..(Len(text) + 1) :
    /\ StartsAt(text, i, p)
    /\ \A j \in 1..(i - 1) : ~StartsAt(text, j, p)

\* text.replace(old, new), old non-empty: leftmost non-overlapping matches
RECURSIVE Replace(_, _, _)
Replace(text, old, new) ==
  IF text = <<>> THEN <<>>
  ELSE IF StartsAt(text, 1, old)
       THEN new \o Replace(From(text, Len(old) + 1), old, new)
       ELSE <<Head(text)>> \o Replace(Tail(text), old, new)

\* text.split(sep, 1)[1], given sep in text
AfterFirst(text, sep) == From(text, Find(text, sep) + Len(sep))

\* text.strip()
RECURSIVE LStrip(_)
LStrip(text) ==
  IF text # <<>> /\ Head(text) \in Whitespace THEN LStrip(Tail(text)) ELSE text

RECURSIVE RStrip(_)
RStrip(text) ==
  IF text # <<>> /\ text[Len(text)] \in Whitespace
  THEN RStrip(SubSeq(text, 1, Len(text) - 1))
  ELSE text

Strip(text) == RStrip(LStrip(text))

\* "".join(reversed(result))
RECURSIVE Reversed(_)
Reversed(seq) ==
  IF seq = <<>> THEN <<>> ELSE Append(Reversed(Tail(seq)), Head(seq))

\* urllib.parse.unquote(s): every %XX becomes a byte, and the bytes are decoded
\* as UTF-8 with errors="replace" (an ill-formed sequence becomes U+FFFD, one
\* per maximal ill-formed prefix); a "%" not followed by two hex digits stays.
HexDigits == <<"0", "1", "2", "3", "4", "5", "6", "7", "8", "9",
               "a", "b", "c", "d", "e", "f", "A", "B", "C", "D", "E", "F">>

HexVal(ch) ==
  LET i == IndexOf(HexDigits, ch) IN IF i <= 16 THEN i - 1 ELSE i - 7

ByteAt(text, i) ==
  IF /\ i + 2 <= Len(text)
     /\ text[i] = "%"
     /\ text[i + 1] \in Range(HexDigits)
     /\ text[i + 2] \in Range(HexDigits)
  THEN 16 * HexVal(text[i + 1]) + HexVal(text[i + 2])
  ELSE -1

\* number of continuation bytes the lead byte b announces (0: not a lead byte)
Utf8Need(b) ==
  IF b \in 194..223 THEN 1
  ELSE IF b \in 224..239 THEN 2
  ELSE IF b \in 240..244 THEN 3
  ELSE 0

\* the k-th byte after the lead byte b continues a well-formed sequence
Utf8ContOK(b, k, c) ==
  IF k = 1 /\ b = 224 THEN c \in 160..191
  ELSE IF k = 1 /\ b = 237 THEN c \in 128..159
  ELSE IF k = 1 /\ b = 240 THEN c \in 144..191
  ELSE IF k = 1 /\ b = 244 THEN c \in 128..143
  ELSE c \in 128..191

\* how many well-formed continuation bytes follow the lead byte at text[1..3]
Utf8Valid(text, b) ==
  LET ok(k) == \A j \in 1..k : Utf8ContOK(b, j, ByteAt(text, 3 * j + 1))
  IN  CHOOSE k \in 0..Utf8Need(b) :
        /\ ok(k)
        /\ \A m \in (k + 1)..Utf8Need(b) : ~ok(m)

Utf8CodePoint(text, b) ==
  LET c(k) == ByteAt(text, 3 * k + 1) - 128
  IN  IF Utf8Need(b) = 1 THEN (b - 192) * 64 + c(1)
      ELSE IF Utf8Need(b) = 2 THEN (b - 224) * 4096 + c(1) * 64 + c(2)
      ELSE (b - 240) * 262144 + c(1) * 4096 + c(2) * 64 + c(3)

RECURSIVE unquote(_)
unquote(text) ==
  IF text = <<>> THEN <<>>
  ELSE LET b == ByteAt(text, 1) IN
    IF b < 0 THEN <<Head(text)>> \o unquote(Tail(text))
    ELSE IF b < 128 THEN <<Chr(b)>> \o unquote(From(text, 4))
    ELSE LET k == Utf8Valid(text, b) IN
      IF Utf8Need(b) > 0 /\ k = Utf8Need(b)
      THEN <<Chr(Utf8CodePoint(text, b))>> \o unquote(From(text, 3 * (k + 1) + 1))
      ELSE <<U(65533)>> \o unquote(From(text, 3 * (k + 1) + 1))

----------------------------------------------------------------------------
(* Configuration.  A dict that is iterated is a sequence of <<key, value>>   *)
(* pairs in insertion order; a string option is text; None is <<>>.          *)

DictHas(d, k) == \E i \in DOMAIN d : d[i][1] = k

DictGet(d, k) == d[CHOOSE i \in DOMAIN d : d[i][1] = k][2]

\* d[k] = v: an existing key keeps its place
DictSet(d, k, v) ==
  IF DictHas(d, k)
  THEN [i \in DOMAIN d |-> IF d[i][1] = k THEN <<k, v>> ELSE d[i]]
  ELSE Append(d, <<k, v>>)

B32_FUZZY_CONFIG ==
  [ url_mode |-> "host_plus_path",
    treat_domain_like_url |-> TRUE,
    url_joiner |-> <<"/">>,
    separators |-> {"-", "_", "/", ":", "@", "?", "=", "&", "%", "#"},
    keep_alnum_only |-> TRUE,
    uppercase_letters |-> TRUE,
    char_alias |->
      << <<"O", "0">>, <<"o", "0">>,
         <<"I", "1">>, <<"i", "1">>,
         <<"L", "1">>, <<"l", "1">>,
         <<"Z", "2">>, <<"z", "2">>,
         <<"U", "u">>, <<"u", "u">> >>,
    magic_substitutions |->
      << << <<"Q">>, <<"Q", "Q">> >>,
         << <<"q">>, <<"Q", "Q">> >>,
         << <<" ">>, <<"Q", "X">> >>,
         << <<".">>, <<"Q", "J">> >>,
         << <<"!">>, <<"Q", "B">> >>,
         << <<",">>, <<"Q", "C">> >>,
         << <<"?">>, <<"Q", "K">> >>,
         << <<"\n">>, <<"Q", "N">> >> >>,
    invalid_char_policy |-> <<"s", "k", "i", "p">>,
    return_normalized_on_fail |-> TRUE ]

----------------------------------------------------------------------------
(* PinCode32Service.__init__ *)

charset ==
  << "0", "1", "2", "3", "4", "5", "6", "7", "8", "9",
     "A", "B", "C", "D", "E", "F", "G", "H", "J", "K", "M", "N",
     "P", "Q", "R", "S", "T", "u", "V", "W", "X", "Y" >>

\* Mutant of decode_map_charset: enumerate(self.charset, 1)
decode_map_charset_from1(cs) == [ch \in Range(cs) |-> IndexOf(cs, ch)]

\* {char: idx for idx, char in enumerate(self.charset)}
decode_map_charset(cs) == [ch \in Range(cs) |-> IndexOf(cs, ch) - 1]

\* for ch, val in list(self.decode_map.items()):
\*     if ch.isalpha() and ch != "u": self.decode_map[ch.lower()] = val
RECURSIVE decode_map_lower(_, _)
decode_map_lower(dm, items) ==
  IF items = <<>> THEN dm
  ELSE LET ch == Head(items)[1]
           val == Head(items)[2]
       IN  IF IsAlpha(ch) /\ ch # "u"
           THEN decode_map_lower((Lower(ch) :> val) @@ dm, Tail(items))
           ELSE decode_map_lower(dm, Tail(items))

\* for k, v in alias.items():
\*     if v in self.decode_map: self.decode_map[k] = self.decode_map[v]
RECURSIVE decode_map_alias(_, _)
decode_map_alias(dm, alias) ==
  IF alias = <<>> THEN dm
  ELSE LET k == Head(alias)[1]
           v == Head(alias)[2]
       IN  IF v \in DOMAIN dm
           THEN decode_map_alias((k :> dm[v]) @@ dm, Tail(alias))
           ELSE decode_map_alias(dm, Tail(alias))

\* Mutant of reverse_magic_map_of: every entry overwrites (the last literal wins)
RECURSIVE reverse_magic_map_last_wins(_, _)
reverse_magic_map_last_wins(map, raw_subs) ==
  IF raw_subs = <<>> THEN map
  ELSE reverse_magic_map_last_wins(
         DictSet(map, Head(raw_subs)[2], Head(raw_subs)[1]), Tail(raw_subs))

\* for original, code in raw_subs:
\*     if code not in self.reverse_magic_map: self.reverse_magic_map[code] = original
\*     elif original == 'Q': self.reverse_magic_map[code] = original
RECURSIVE reverse_magic_map_of(_, _)
reverse_magic_map_of(map, raw_subs) ==
  IF raw_subs = <<>> THEN map
  ELSE LET original == Head(raw_subs)[1]
           code == Head(raw_subs)[2]
       IN  IF ~DictHas(map, code) \/ original = <<"Q">>
           THEN reverse_magic_map_of(DictSet(map, code, original), Tail(raw_subs))
           ELSE reverse_magic_map_of(map, Tail(raw_subs))

\* re.compile('|'.join(map(re.escape, keys))): the tokens in alternation
\* order; <<>> stands for None
reverse_magic_pattern_of(map) == [i \in DOMAIN map |-> map[i][1]]

PinCode32Service(config) ==
  LET cs == charset
      dm0 == decode_map_charset(cs)
      dm1 == decode_map_lower(dm0, [i \in DOMAIN cs |-> <<cs[i], dm0[cs[i]]>>])
      dm2 == decode_map_alias(dm1, config.char_alias)
      rmap == reverse_magic_map_of(<<>>, config.magic_substitutions)
  IN  [ config |-> config,
        charset |-> cs,
        base |-> 32,
        decode_map |-> dm2,
        reverse_magic_map |-> rmap,
        reverse_magic_pattern |-> reverse_magic_pattern_of(rmap) ]

----------------------------------------------------------------------------
(* PinCode32Service methods *)

\* while number > 0:
\*     number, remainder = divmod(number, self.base)
\*     result.append(self.charset[remainder])
RECURSIVE encode_loop(_, _, _)
encode_loop(self, number, result) ==
  IF number > 0
  THEN encode_loop(self, number \div self.base,
                   Append(result, self.charset[(number % self.base) + 1]))
  ELSE result

\* Mutant of zfill: no padding
zfill_none(text, width) == text

\* encoded.zfill(width): "0" on the left up to width (no sign in a charset string)
RECURSIVE zfill(_, _)
zfill(text, width) ==
  IF Len(text) < width THEN zfill(<<"0">> \o text, width) ELSE text

\* Mutant of encode: the digits are joined without reversed()
encode_unreversed(self, number) ==
  IF number < 0 THEN StrV(<<"E", "R", "R", "O", "R">>)
  ELSE IF number = 0 THEN StrV(<<"0", "0">>)
  ELSE LET encoded == encode_loop(self, number, <<>>)
       IN  StrV(IF Len(encoded) < 2 THEN zfill(encoded, 2) ELSE encoded)

encode(self, number) ==
  IF number < 0 THEN StrV(<<"E", "R", "R", "O", "R">>)
  ELSE IF number = 0 THEN StrV(<<"0", "0">>)
  ELSE LET encoded == Reversed(encode_loop(self, number, <<>>))
       IN  StrV(IF Len(encoded) < 2 THEN zfill(encoded, 2) ELSE encoded)

\* Mutant of apply_subs: the rules are applied last to first
RECURSIVE apply_subs_backwards(_, _)
apply_subs_backwards(text, subs) ==
  IF subs = <<>> THEN text
  ELSE LET original == subs[Len(subs)][1]
           code == subs[Len(subs)][2]
       IN  apply_subs_backwards(
             IF Contains(text, original) THEN Replace(text, original, code) ELSE text,
             SubSeq(subs, 1, Len(subs) - 1))

\* for original, code in subs:
\*     if original in text: text = text.replace(original, code)
RECURSIVE apply_subs(_, _)
apply_subs(text, subs) ==
  IF subs = <<>> THEN text
  ELSE LET original == Head(subs)[1]
           code == Head(subs)[2]
       IN  IF Contains(text, original)
           THEN apply_subs(Replace(text, original, code), Tail(subs))
           ELSE apply_subs(text, Tail(subs))

apply_magic_substitutions(self, text) ==
  StrV(apply_subs(text, self.config.magic_substitutions))

\* the first alternative of the pattern that matches at text[1..]; 0 if none
MatchAt(pattern, text) ==
  IF \E i \in DOMAIN pattern : StartsAt(text, 1, pattern[i])
  THEN CHOOSE i \in DOMAIN pattern :
         /\ StartsAt(text, 1, pattern[i])
         /\ \A j \in 1..(i - 1) : ~StartsAt(text, 1, pattern[j])
  ELSE 0

\* self.reverse_magic_pattern.sub(replace_callback, encoded_text)
RECURSIVE pattern_sub(_, _)
pattern_sub(self, text) ==
  IF text = <<>> THEN <<>>
  ELSE LET i == MatchAt(self.reverse_magic_pattern, text) IN
    IF i = 0 THEN <<Head(text)>> \o pattern_sub(self, Tail(text))
    ELSE LET token == self.reverse_magic_pattern[i]
             literal == IF DictHas(self.reverse_magic_map, token)
                        THEN DictGet(self.reverse_magic_map, token)
                        ELSE token
         IN  literal \o pattern_sub(self, From(text, Len(token) + 1))

reverse_magic_substitutions(self, encoded_text) ==
  IF self.reverse_magic_pattern = <<>> THEN StrV(encoded_text)
  ELSE StrV(pattern_sub(self, encoded_text))

extract_payload(self, raw) ==
  LET s == unquote(Strip(raw)) IN
    IF s = <<>> THEN StrV(<<>>)
    ELSE IF Contains(s, <<":", "/", "/">>)
         THEN LET parts == AfterFirst(s, <<":", "/", "/">>) IN
                IF Contains(parts, <<"/">>)
                THEN StrV(AfterFirst(parts, <<"/">>))
                ELSE StrV(s)
         ELSE StrV(s)

\* the loop body of normalize_for_decode for one character: <<>> or <<ch>>
normalize_char(self, ch0) ==
  LET cfg == self.config
      ch1 == IF cfg.uppercase_letters /\ ch0 \in AsciiLower /\ ch0 # "u"
             THEN Upper(ch0) ELSE ch0
      ch2 == IF DictHas(cfg.char_alias, ch1)
             THEN DictGet(cfg.char_alias, ch1) ELSE ch1
  IN  IF ch0 \in cfg.separators THEN <<>>
      ELSE IF cfg.keep_alnum_only /\ ~IsAlnum(ch2) THEN <<>>
      ELSE <<ch2>>

RECURSIVE normalize_loop(_, _)
normalize_loop(self, payload) ==
  IF payload = <<>> THEN <<>>
  ELSE normalize_char(self, Head(payload)) \o normalize_loop(self, Tail(payload))

normalize_for_decode(self, raw) ==
  LET payload == extract_payload(self, raw).s IN
    IF payload = <<>> THEN StrV(<<>>)
    ELSE StrV(normalize_loop(self, apply_magic_substitutions(self, payload).s))

\* Mutant of policy_of: the policy is compared without .lower()
policy_of_nolower(self) ==
  IF self.config.invalid_char_policy = <<>>
  THEN <<"e", "r", "r", "o", "r">>
  ELSE self.config.invalid_char_policy

\* (self.config.get("invalid_char_policy", "error") or "error").lower()
policy_of(self) ==
  LET p == IF self.config.invalid_char_policy = <<>>
           THEN <<"e", "r", "r", "o", "r">>
           ELSE self.config.invalid_char_policy
  IN  [i \in DOMAIN p |-> Lower(p[i])]

RECURSIVE decode_loop(_, _, _, _)
decode_loop(self, policy, b32_str, total) ==
  IF b32_str = <<>> THEN IntV(total)
  ELSE LET ch == Head(b32_str) IN
    IF ch \notin DOMAIN self.decode_map
    THEN IF policy = <<"s", "k", "i", "p">>
         THEN decode_loop(self, policy, Tail(b32_str), total)
         ELSE IF policy = <<"z", "e", "r", "o">>
              THEN decode_loop(self, policy, Tail(b32_str), total * self.base + 0)
              ELSE ValueError(ch)
    ELSE decode_loop(self, policy, Tail(b32_str),
                     total * self.base + self.decode_map[ch])

decode(self, b32_str) == decode_loop(self, policy_of(self), b32_str, 0)

----------------------------------------------------------------------------
(* The callers.  A run starts from a service built from a configuration and  *)
(* one raw input; each step calls one method on the value in hand and keeps  *)
(* the result as the next value (a call that raises leaves it in hand).      *)

MaxLen == 2

MaxDigits == 3

MaxN == 1056

MaxCalls == 2

Strings(chars, n) == UNION {[1..k -> chars] : k \in 0..n}

\* the characters of the short texts: alphabet symbols, an alias, a lower-case
\* letter, escape literals, a separator, a symbol and a non-ASCII letter
TextChars == {"0", "Q", "q", "X", "u", "O", "a", " ", "!", "/", "*", U(233)}

\* longer texts: URLs, percent-escapes, surrounding white space, escapes
Words == {
    <<"h", "t", "t", "p", ":", "/", "/", "e", "x", "a", "m", "p", "l",
      "e", ".", "c", "o", "m", "/", "H", "e", "l", "l", "o", " ", "W",
      "o", "r", "l", "d", "!">>,
    <<"h", "t", "t", "p", ":", "/", "/", "s", "i", "t", "e", ".", "c",
      "o", "m", "/", "I", " ", "l", "o", "v", "e", " ", "m", "o", "m",
      "!">>,
    <<"h", "t", "t", "p", ":", "/", "/", "e", "x", "a", "m", "p", "l",
      "e", ".", "c", "o", "m">>,
    <<"f", "t", "p", ":", "/", "/", "h", "/", "p", "?", "k", "=", "1",
      "#", "f">>,
    <<"e", "x", "a", "m", "p", "l", "e", ".", "c", "o", "m", "/", "a">>,
    <<"%", "C", "3", "%", "A", "9">>,
    <<"%", "e", "9", "%", "5", "1">>,
    <<" ", "a", "%", "2", "0", "b", "\n">>,
    <<"Q", " ", "q", "!", "X">>,
    <<"Q", "X", " ", "!", "Q", ".">>,
    <<"q", "Q", "X", ".">>,
    <<"a", ",", "b", "?", "\n", "c">>
  }

\* the characters of the short codes: alphabet symbols and one that is none
CodeChars == {"0", "1", "Q", "u", "Y", "!"}

Numbers == (0 - 2)..MaxN

\* service = PinCode32Service(B32_FUZZY_CONFIG), called on a text
Init ==
  /\ service = PinCode32Service(B32_FUZZY_CONFIG)
  /\ arg \in {StrV(s) : s \in Strings(TextChars, MaxLen) \cup Words}
  /\ hist = <<>>

\* the shipped configuration with each invalid_char_policy
Policies == { <<"s", "k", "i", "p">>, <<"Z", "e", "r", "o">>,
              <<"e", "r", "r", "o", "r">> }

Configs == {[B32_FUZZY_CONFIG EXCEPT !.invalid_char_policy = p] : p \in Policies}

\* a service under any policy, called on a number or on a code
InitCodec ==
  /\ service \in {PinCode32Service(config) : config \in Configs}
  /\ arg \in {IntV(n) : n \in Numbers}
             \cup {StrV(s) : s \in Strings(CodeChars, MaxDigits)}
  /\ hist = <<>>

Call(op, res) ==
  /\ Len(hist) < MaxCalls
  /\ hist' = Append(hist, [op |-> op, arg |-> arg, res |-> res])
  /\ arg' = IF res.t = "ValueError" THEN arg ELSE res

Encode ==
  /\ arg.t = "int"
  /\ Call("encode", encode(service, arg.n))
  /\ UNCHANGED service

\* Mutant of Decode: an unmapped character met is remembered in decode_map
Decode_caching ==
  /\ arg.t = "str"
  /\ 5 * Len(arg.s) < 31
  /\ Call("decode", decode(service, arg.s))
  /\ service' =
       [service EXCEPT !.decode_map =
          [ch \in (DOMAIN @) \cup Range(arg.s) |->
             IF ch \in DOMAIN @ THEN @[ch] ELSE 0]]

\* the total of a string of k digits is below 32^k, kept within 31 bits
Decode ==
  /\ arg.t = "str"
  /\ 5 * Len(arg.s) < 31
  /\ Call("decode", decode(service, arg.s))
  /\ UNCHANGED service

ApplyMagic ==
  /\ arg.t = "str"
  /\ Call("apply_magic_substitutions", apply_magic_substitutions(service, arg.s))
  /\ UNCHANGED service

ReverseMagic ==
  /\ arg.t = "str"
  /\ Call("reverse_magic_substitutions", reverse_magic_substitutions(service, arg.s))
  /\ UNCHANGED service

ExtractPayload ==
  /\ arg.t = "str"
  /\ Call("extract_payload", extract_payload(service, arg.s))
  /\ UNCHANGED service

NormalizeForDecode ==
  /\ arg.t = "str"
  /\ Call("normalize_for_decode", normalize_for_decode(service, arg.s))
  /\ UNCHANGED service

Next ==
  \/ Encode
  \/ Decode
  \/ ApplyMagic
  \/ ReverseMagic
  \/ ExtractPayload
  \/ NormalizeForDecode

Spec == Init /\ [][Next]_vars

SpecCodec == InitCodec /\ [][Next]_vars

----------------------------------------------------------------------------
(* Claims *)

Calls == DOMAIN hist

\* call i is op1, and call i + 1 is op2 on the result of call i
Then(i, op1, op2) ==
  /\ i + 1 \in Calls
  /\ hist[i].op = op1
  /\ hist[i + 1].op = op2
  /\ hist[i + 1].arg = hist[i].res

\* the configured policy, read off the configuration text
ConfiguredPolicy ==
  LET p == service.config.invalid_char_policy IN
    IF p \in {<<"s", "k", "i", "p">>, <<"S", "k", "i", "p">>} THEN "skip"
    ELSE IF p \in {<<"z", "e", "r", "o">>, <<"Z", "e", "r", "o">>} THEN "zero"
    ELSE "reject"

\* the number a digit string denotes: its symbols' places in the alphabet,
\* most significant first
RECURSIVE PlaceValue(_)
PlaceValue(s) ==
  IF s = <<>> THEN 0
  ELSE 32 * PlaceValue(SubSeq(s, 1, Len(s) - 1)) + (IndexOf(charset, s[Len(s)]) - 1)

IsCanonical(s) == \A k \in DOMAIN s : s[k] \in Range(charset)

\* C1: for every n >= 0, decoding the string encode(n) returned gives n again,
\* under every invalid-character policy.
C1_DecodeOfEncode ==
  \A i \in Calls :
    (Then(i, "encode", "decode") /\ hist[i].arg.n >= 0)
      => hist[i + 1].res = IntV(hist[i].arg.n)

C1_Witness ==
  \E i \in Calls :
    /\ Then(i, "encode", "decode")
    /\ hist[i].arg.n >= 1024
    /\ ConfiguredPolicy = "reject"
    /\ hist[i + 1].res = IntV(hist[i].arg.n)

\* C2: encode of a negative integer fails with an error; it returns no string.
C2_NegativeEncodeFails ==
  \A i \in Calls :
    (hist[i].op = "encode" /\ hist[i].arg.n < 0) => hist[i].res.t \notin {"str", "int"}

\* C3: decode of a string with exactly one character absent from the decode map:
\* under reject it raises the error naming that character; under skip it returns
\* what decode returns for the string without the character; under
\* substitute-zero what decode returns for the string with "0" in its place.
Absent(s) == {p \in DOMAIN s : s[p] \notin DOMAIN service.decode_map}

Without(s, p) == SubSeq(s, 1, p - 1) \o SubSeq(s, p + 1, Len(s))

C3_OneInvalidCharacter ==
  \A i \in Calls :
    (hist[i].op = "decode" /\ Cardinality(Absent(hist[i].arg.s)) = 1) =>
      LET s == hist[i].arg.s
          p == CHOOSE q \in Absent(s) : TRUE
      IN  CASE ConfiguredPolicy = "reject" -> hist[i].res = ValueError(s[p])
            [] ConfiguredPolicy = "skip" ->
                 /\ hist[i].res.t = "int"
                 /\ hist[i].res = decode(service, Without(s, p))
            [] ConfiguredPolicy = "zero" ->
                 /\ hist[i].res.t = "int"
                 /\ hist[i].res = decode(service, [s EXCEPT ![p] = "0"])

C3_Witness ==
  \E i \in Calls :
    /\ hist[i].op = "decode"
    /\ Len(hist[i].arg.s) = 3
    /\ Absent(hist[i].arg.s) = {2}
    /\ ConfiguredPolicy = "zero"
    /\ hist[i].res.t = "int"
    /\ hist[i].res.n >= 1024

\* C7: for every string s of canonical alphabet symbols, of length at least 2,
\* whose first symbol is not the zero digit unless its length is 2,
\* encode(decode(s)) = s.
C7_EncodeOfDecode ==
  \A i \in Calls :
    LET s == hist[i].arg.s IN
      ( /\ Then(i, "decode", "encode")
        /\ IsCanonical(s)
        /\ Len(s) >= 2
        /\ (s[1] # "0" \/ Len(s) = 2) )
        => hist[i + 1].res = StrV(s)

C7_Witness ==
  \E i \in Calls :
    /\ Then(i, "decode", "encode")
    /\ IsCanonical(hist[i].arg.s)
    /\ Len(hist[i].arg.s) = 3
    /\ hist[i].arg.s[1] # "0"
    /\ hist[i + 1].res = hist[i].arg

\* C9: for every n >= 0, encode(n) is the base-32 digit string of n, most
\* significant digit first, left-padded with "0" to length 2: only alphabet
\* symbols (the sentinel as lower-case "u", every other letter upper-case),
\* length >= 2, no leading "0" from 32 on, encode(0) = "00", encode(31) = "0Y".
C9_EncodeDigits ==
  \A i \in Calls :
    (hist[i].op = "encode" /\ hist[i].arg.n >= 0) =>
      LET n == hist[i].arg.n
          s == hist[i].res.s
      IN  /\ hist[i].res.t = "str"
          /\ Len(s) >= 2
          /\ IsCanonical(s)
          /\ \A k \in DOMAIN s : s[k] \in AsciiDigits \cup AsciiUpper \cup {"u"}
          /\ PlaceValue(s) = n
          /\ n >= 32 => s[1] # "0"
          /\ n < 32 => Len(s) = 2
          /\ n = 0 => s = <<"0", "0">>
          /\ n = 31 => s = <<"0", "Y">>

C9_Witness ==
  \E i \in Calls :
    /\ hist[i].op = "encode"
    /\ hist[i].arg.n = 31
    /\ hist[i].res = StrV(<<"0", "Y">>)

\* C4 as stated: for every s made only of escape-table literals (Q, q, space,
\* ".", "!", ",", "?", newline) and alphabet symbols,
\* reverse_magic_substitutions(apply_magic_substitutions(s)) = s.
EscapeLiterals == {"Q", "q", " ", ".", "!", ",", "?", "\n"}

C4_UnescapeOfEscape_AsStated ==
  \A i \in Calls :
    ( /\ Then(i, "apply_magic_substitutions", "reverse_magic_substitutions")
      /\ Range(hist[i].arg.s) \subseteq EscapeLiterals \cup Range(charset) )
      => hist[i + 1].res = hist[i].arg

\* C4, amended: the same for every s made only of the escape-table literals other
\* than lower-case "q" and of alphabet symbols (a "q" comes back as "Q").
C4_UnescapeOfEscape ==
  \A i \in Calls :
    ( /\ Then(i, "apply_magic_substitutions", "reverse_magic_substitutions")
      /\ Range(hist[i].arg.s) \subseteq (EscapeLiterals \ {"q"}) \cup Range(charset) )
      => hist[i + 1].res = hist[i].arg

C4_Witness ==
  \E i \in Calls :
    /\ Then(i, "apply_magic_substitutions", "reverse_magic_substitutions")
    /\ {"Q", "X", " ", "!"} \subseteq Range(hist[i].arg.s)
    /\ Range(hist[i].arg.s) \subseteq (EscapeLiterals \ {"q"}) \cup Range(charset)
    /\ hist[i].res # hist[i].arg
    /\ hist[i + 1].res = hist[i].arg

\* C5: every character of normalize_for_decode(raw) is one of the 32 alphabet
\* symbols, so none of them is absent from the decode map.
C5_NormalizedIsAlphabetOnly ==
  \A i \in Calls :
    hist[i].op = "normalize_for_decode" =>
      /\ Range(hist[i].res.s) \subseteq Range(charset)
      /\ Range(hist[i].res.s) \subseteq DOMAIN service.decode_map

\* C6: under url_mode host_plus_path with joiner "/", extract_payload of a raw
\* string with a scheme is the host and the path joined by the joiner; scheme,
\* query and fragment are dropped, the host never is.
RECURSIVE Until(_, _)
Until(text, stops) ==
  IF text = <<>> \/ Head(text) \in stops THEN <<>>
  ELSE <<Head(text)>> \o Until(Tail(text), stops)

HostPlusPath(s, joiner) ==
  LET rest == AfterFirst(s, <<":", "/", "/">>)
      host == Until(rest, {"/", "?", "#"})
      tail == From(rest, Len(host) + 1)
      path == IF tail # <<>> /\ Head(tail) = "/"
              THEN Until(Tail(tail), {"?", "#"}) ELSE <<>>
  IN  IF path = <<>> THEN host ELSE host \o joiner \o path

C6_HostPlusPath ==
  \A i \in Calls :
    LET s == unquote(Strip(hist[i].arg.s)) IN
      ( /\ hist[i].op = "extract_payload"
        /\ service.config.url_mode = "host_plus_path"
        /\ Contains(s, <<":", "/", "/">>) )
        => hist[i].res = StrV(HostPlusPath(s, service.config.url_joiner))

\* C8: no call changes the alphabet, the decode map, the reverse escape map, the
\* pattern or the configuration, and two calls of the same method on the same
\* argument return the same result whatever was called in between.
C8_TablesNeverChange ==
  /\ [][service' = service]_vars
  /\ [](\A i, j \in Calls :
          (hist[i].op = hist[j].op /\ hist[i].arg = hist[j].arg)
            => hist[i].res = hist[j].res)

C8_Witness ==
  /\ service = PinCode32Service(service.config)
  /\ \E i, j \in Calls :
       /\ i < j
       /\ hist[i].op = "decode"
       /\ hist[j].op = "decode"
       /\ hist[i].arg = hist[j].arg
       /\ hist[i].res.t = "ValueError"
       /\ hist[i].res = hist[j].res

\* C10: apply_magic_substitutions, applying the rules one after the other in
\* declared order, returns the concatenation of every input character's token
\* (the character itself when no rule has it as literal): no later rule alters
\* a token an earlier rule put out.
TokenOf(ch) ==
  LET subs == B32_FUZZY_CONFIG.magic_substitutions
      rules == {k \in DOMAIN subs : subs[k][1] = <<ch>>}
  IN  IF rules = {} THEN <<ch>>
      ELSE subs[CHOOSE k \in rules : \A m \in rules : k <= m][2]

RECURSIVE PerCharacter(_)
PerCharacter(text) ==
  IF text = <<>> THEN <<>> ELSE TokenOf(Head(text)) \o PerCharacter(Tail(text))

C10_SequentialIsPerCharacter ==
  \A i \in Calls :
    hist[i].op = "apply_magic_substitutions"
      => hist[i].res = StrV(PerCharacter(hist[i].arg.s))

C10_Witness ==
  \E i \in Calls :
    /\ hist[i].op = "apply_magic_substitutions"
    /\ {"Q", "X", " ", "!"} \subseteq Range(hist[i].arg.s)
    /\ hist[i].res = StrV(PerCharacter(hist[i].arg.s))

====
